---- MODULE Spec2Model ----
(***************************************************************************)
(* The resilient HTTP client of src/src/lib/api.ts: one call of            *)
(* ApiClient.request, from its invocation to the value it returns or the   *)
(* error it raises.  The request suspends at `await fetch` and at          *)
(* `await sleep`; every action below runs the code from one suspension     *)
(* point to the next.                                                      *)
(*                                                                         *)
(* Optional JavaScript values (undefined / null / NaN) are sequences of    *)
(* length at most one: None for the missing value, Some(x) for x.          *)
(* Text that the code inspects is a sequence of characters or tokens.      *)
(***************************************************************************)
EXTENDS Integers, Sequences, FiniteSets, TLC

VARIABLES
    hasWindow,  \* typeof window !== 'undefined' in the hosting runtime
    baseUrl,    \* this.baseUrl
    authToken,  \* this.authToken, None for null
    defaultHeaders, \* this.defaultHeaders
    lastSetToken, \* history: the argument of the most recent setAuthToken(), None before any
    tokenRead,  \* history: what the last getAuthToken() returned, with lastSetToken then
    clientAtIssue, \* history: authToken, lastSetToken and defaultHeaders when the request was issued
    req,        \* path, body, config.timeout and config.headers of the running request
    url,        \* `url` of the running request
    headers,    \* `headers` of the running request
    timeout,    \* destructured `timeout` of the running request
    fetched,    \* the url, headers, signal and armed timeout of every network call, in order
    timers,     \* the timeout timer of every network call: armed, cleared or fired
    pc,         \* position of the request: idle, fetch, sleep, returned, raised
    retries,    \* destructured `retries` of the running request
    skipRetry,  \* destructured `skipRetry` of the running request
    attempt,    \* loop variable of the for loop
    lastError,  \* `lastError`, None for null
    response,   \* `response` of the iteration that is suspended or that ended the request
    delay,      \* argument of the pending sleep(ms): None when no sleep is pending
    outcomes,   \* what every network call of the request ended in, in order
    trace,      \* the observable effects of the request, in order
    result,     \* the value the request returned, None before
    raised,     \* the error the request raised, None before
    call,       \* a function outside the client under test: its arguments and its
                \* value, or the state of the closure it returned
    other       \* the locals of a second request of the same client, suspended
                \* while the request above runs: a record of the request variables

clientVars == <<baseUrl, authToken, defaultHeaders, lastSetToken, tokenRead>>

issueVars == <<req, url, headers, timeout, clientAtIssue>>

requestVars == <<issueVars, fetched, timers, pc, retries, skipRetry, attempt, lastError,
                 response, delay, outcomes, trace, result, raised>>

vars == <<hasWindow, clientVars, requestVars, call, other>>

----------------------------------------------------------------------------
(* Bounds of the model *)

MaxRetriesArg == 3      \* largest per-request `retries` value enumerated
MaxAttemptArg == 6      \* largest attempt number given to calculateRetryDelay
MaxStrLen == 5          \* longest string given to truncate
MaxLengthArg == 6       \* largest maxLength given to truncate
MaxMs == 2              \* longest interval given to throttle and debounce
MaxClock == 2           \* how far the clock runs
MaxCalls == 3           \* calls of a throttled or debounced function

----------------------------------------------------------------------------
(* Constants of api.ts *)

DEFAULT_TIMEOUT == 30000
UPLOAD_TIMEOUT == 60000
MAX_RETRIES == 3
INITIAL_RETRY_DELAY == 1000
MAX_RETRY_DELAY == 10000
JITTER_RANGE == 1000
RATE_LIMIT_DEFAULT_DELAY == 60000
SERVER_ERROR_FLOOR == 500

----------------------------------------------------------------------------
(* Optional values *)

None == <<>>
Some(x) == <<x>>
OrDefault(opt, default) == IF opt = None THEN default ELSE opt[1]

Undefined == "undefined"
EmptyObject == "{}"

(* JavaScript truthiness of an optional string field of a decoded body. *)
Truthy(s) == s # Undefined /\ s # ""

OrElse(a, b) == IF Truthy(a) THEN a ELSE b

Min(a, b) == IF a <= b THEN a ELSE b

RECURSIVE Pow(_, _)
Pow(b, n) == IF n <= 0 THEN 1 ELSE b * Pow(b, n - 1)

----------------------------------------------------------------------------
(* Pure functions of api.ts *)

(* Math.random() * 1000, sampled at the ends of [0, 1000). *)
JitterValues == {0, JITTER_RANGE - 1}

calculateRetryDelay_NoCap(n, jitter) ==
    INITIAL_RETRY_DELAY * Pow(2, n) + jitter

calculateRetryDelay(n, jitter) ==
    Min(INITIAL_RETRY_DELAY * Pow(2, n) + jitter, MAX_RETRY_DELAY)

isRetryableError(status) ==
    status >= SERVER_ERROR_FLOOR \/ status = 429 \/ status = 408

(* response.ok *)
IsOk(status) == status >= 200 /\ status <= 299

(* ApiError and the plain errors the runtime throws. *)
ApiError(message, status, details) ==
    [name |-> "ApiError", message |-> message, status |-> Some(status),
     details |-> details]

(* thrownAt tells the error objects of different attempts apart. *)
RuntimeError(name, a) ==
    [name |-> name, message |-> name, status |-> None, details |-> Undefined,
     thrownAt |-> a]

IsApiError(e) == e.name = "ApiError"

(* parseInt(text) with no radix, on a text given as a sequence of          *)
(* characters: an optional sign, then the longest run of decimal digits;   *)
(* NaN (None) when there is no digit.                                      *)
Digits == <<"0", "1", "2", "3", "4", "5", "6", "7", "8", "9">>

IsDigit(c) == \E i \in 1..10 : Digits[i] = c

DigitValue(c) == (CHOOSE i \in 1..10 : Digits[i] = c) - 1

RECURSIVE DigitRun(_)
DigitRun(s) ==
    IF s = <<>> \/ ~IsDigit(Head(s)) THEN <<>>
    ELSE <<Head(s)>> \o DigitRun(Tail(s))

RECURSIVE DecimalValue(_, _)
DecimalValue(s, acc) ==
    IF s = <<>> THEN acc
    ELSE DecimalValue(Tail(s), 10 * acc + DigitValue(Head(s)))

parseInt(s) ==
    LET signed == s # <<>> /\ Head(s) \in {"-", "+"}
        body == IF signed THEN Tail(s) ELSE s
        run == DigitRun(body)
        sign == IF signed /\ Head(s) = "-" THEN -1 ELSE 1
    IN  IF run = <<>> THEN None ELSE Some(sign * DecimalValue(run, 0))

(* x * 1000 on a JavaScript number: NaN stays NaN. *)
TimesThousand(num) == IF num = None THEN None ELSE Some(num[1] * 1000)

RateLimitDelay_Seconds(retryAfter) ==
    IF retryAfter # None /\ retryAfter[1] # <<>>
    THEN parseInt(retryAfter[1])
    ELSE Some(RATE_LIMIT_DEFAULT_DELAY)

(* Line 179: retryAfter ? parseInt(retryAfter) * 1000 : 60_000.            *)
(* retryAfter is None for null; an empty text is falsy.                    *)
RateLimitDelay(retryAfter) ==
    IF retryAfter # None /\ retryAfter[1] # <<>>
    THEN TimesThousand(parseInt(retryAfter[1]))
    ELSE Some(RATE_LIMIT_DEFAULT_DELAY)

(* Line 229: contentType?.includes('application/json'), the content type   *)
(* given as a sequence of tokens.                                          *)
IsJson(contentType) ==
    /\ contentType # None
    /\ \E i \in 1..Len(contentType[1]) : contentType[1][i] = "application/json"

ErrorMessage_MessageFirst(errorData, status) ==
    OrElse(errorData.message, OrElse(errorData.error, "HTTP " \o ToString(status)))

(* Line 221: errorData.error || errorData.message || `HTTP ${status}` *)
ErrorMessage(errorData, status) ==
    OrElse(errorData.error, OrElse(errorData.message, "HTTP " \o ToString(status)))

(* text.startsWith(prefix) on sequences of characters *)
StartsWith(text, prefix) ==
    /\ Len(text) >= Len(prefix)
    /\ SubSeq(text, 1, Len(prefix)) = prefix

(* Line 140: path.startsWith('http') ? path : `${this.baseUrl}${path}` *)
ResolveUrl(base, path) ==
    IF StartsWith(path, <<"h", "t", "t", "p">>) THEN path ELSE base \o path

(* body instanceof FormData *)
IsFormData(body) == body = "FormData"

(* Lines 132-133: the destructuring default of `timeout` *)
EffectiveTimeout_Falsy(timeoutArg, body) ==
    IF timeoutArg # None /\ timeoutArg[1] # 0 THEN timeoutArg[1]
    ELSE IF IsFormData(body) THEN UPLOAD_TIMEOUT ELSE DEFAULT_TIMEOUT

EffectiveTimeout(timeoutArg, body) ==
    OrDefault(timeoutArg, IF IsFormData(body) THEN UPLOAD_TIMEOUT ELSE DEFAULT_TIMEOUT)

(* A header object is the sequence of its own [name, value] entries in     *)
(* insertion order; names are the object's keys, compared exactly.         *)
NoHeaders == <<>>

HeaderNames(h) == {h[i].name : i \in DOMAIN h}

(* headers[k] = v *)
WithHeader(h, k, v) ==
    IF k \in HeaderNames(h)
    THEN LET i == CHOOSE x \in DOMAIN h : h[x].name = k
         IN  [h EXCEPT ![i] = [name |-> k, value |-> v]]
    ELSE Append(h, [name |-> k, value |-> v])

(* delete headers[k] *)
WithoutHeader(h, k) ==
    LET Keep(e) == e.name # k
    IN  SelectSeq(h, Keep)

(* { ...a, ...b } *)
RECURSIVE Spread(_, _)
Spread(a, b) ==
    IF b = <<>> THEN a
    ELSE Spread(WithHeader(a, b[1].name, b[1].value), Tail(b))

(* this.authToken is truthy: not null and not the empty string *)
TokenIsSet(token) == token # None /\ token[1] # ""

(* Lines 143-156 *)
BuildHeaders(defaults, headersArg, token, body) ==
    LET merged == Spread(defaults, OrDefault(headersArg, NoHeaders))
        authed == IF TokenIsSet(token)
                  THEN WithHeader(merged, "Authorization", "Bearer " \o token[1])
                  ELSE merged
    IN  IF IsFormData(body) THEN WithoutHeader(authed, "Content-Type") ELSE authed

(* fetch(url, { headers }) fills a Headers list from the object: every     *)
(* entry is appended under its name in lower case, so entries whose names  *)
(* differ only in case are values of one header, in insertion order.       *)
LowerCase(name) ==
    CASE name = "Content-Type" -> "content-type"
      [] name = "Authorization" -> "authorization"
      [] OTHER -> name

RECURSIVE HeaderValues(_, _)
HeaderValues(h, n) ==
    IF h = <<>> THEN <<>>
    ELSE IF LowerCase(h[1].name) = n
         THEN <<h[1].value>> \o HeaderValues(Tail(h), n)
         ELSE HeaderValues(Tail(h), n)

(* The signal of the AbortController created for network call k, line 163 *)
Controller(k) == [controller |-> k]

(* The signal of a controller of the caller, none of the request's own *)
CallerSignal == Controller(0)

(* Lines 166-172: `signal: controller.signal, ...fetchConfig`: a signal in  *)
(* the per-request config is spread after the client's and replaces it.    *)
EffectiveSignal(signalArg, k) ==
    IF signalArg # None THEN signalArg[1] ELSE Controller(k)

(* Lines 89-92: baseUrl || process.env.NEXT_PUBLIC_API_URL ||               *)
(* (typeof window !== 'undefined' ? '' : 'http://localhost:4000')          *)
LocalApiUrl ==
    <<"h", "t", "t", "p", ":", "/", "/", "l", "o", "c", "a", "l", "h", "o", "s", "t",
      ":", "4", "0", "0", "0">>

ConstructBaseUrl(baseUrlArg, envUrl, window) ==
    IF baseUrlArg # None /\ baseUrlArg[1] # <<>> THEN baseUrlArg[1]
    ELSE IF envUrl # None /\ envUrl[1] # <<>> THEN envUrl[1]
    ELSE IF window THEN <<>> ELSE LocalApiUrl

(* Lines 83-85 *)
InitialHeaders == <<[name |-> "Content-Type", value |-> "application/json"]>>

----------------------------------------------------------------------------
(* Inputs *)

RetriesArgs == {None} \cup {Some(n) : n \in 0..MaxRetriesArg}
SkipRetryArgs == {None, Some(FALSE), Some(TRUE)}
Configs ==
    [retries : RetriesArgs, skipRetry : SkipRetryArgs, timeout : {None},
     headers : {None},
     signal : {None}]

(* The path and body of the requests of the retry loop: '/a', some JSON. *)
PlainPath == <<"/", "a">>
PlainBody == "json"

Statuses == {200, 401, 404, 408, 422, 429, 500, 503}

(* response.headers.get('Retry-After'): null, or the text of the header:  *)
(* empty, decimal seconds, digits followed by other text, an HTTP date.    *)
RetryAfterValues ==
    {None, Some(<<>>), Some(<<"0">>), Some(<<"5">>), Some(<<"0", "5">>),
     Some(<<"1", "2", "0">>), Some(<<"5", "s">>), Some(<<"W", "e", "d">>)}

ContentTypes ==
    {None, Some(<<"application/json">>),
     Some(<<"application/json", "; charset=utf-8">>), Some(<<"text/html">>)}

(* Decoded bodies of error responses, of the documented error shape        *)
(* { error?, message?, details? }.                                         *)
EmptyErrorData == [error |-> Undefined, message |-> Undefined, details |-> Undefined]

ErrorBodies ==
    {EmptyErrorData,
     [error |-> "E", message |-> "M", details |-> "D"],
     [error |-> "", message |-> "M", details |-> Undefined],
     [error |-> Undefined, message |-> Undefined, details |-> "D"]}

DataBodies == {"A", "B"}

(* A response: json is None when the body does not decode as JSON. *)
Responses ==
    [status : {s \in Statuses : IsOk(s)}, retryAfter : {None},
     contentType : ContentTypes, json : {None} \cup {Some(b) : b \in DataBodies}]
    \cup
    [status : {s \in Statuses : ~IsOk(s) /\ s # 429}, retryAfter : {None},
     contentType : {Some(<<"application/json">>)},
     json : {None} \cup {Some(b) : b \in ErrorBodies}]
    \cup
    [status : {429}, retryAfter : RetryAfterValues,
     contentType : {Some(<<"application/json">>)},
     json : {None} \cup {Some(b) : b \in ErrorBodies}]

(* What fetch rejects with: the abort of the timeout, a network failure. *)
FetchErrors == {"AbortError", "TypeError"}

Outcome(kind, status) == [kind |-> kind, status |-> status]

----------------------------------------------------------------------------
(* The state after construction: no request issued yet. *)

(* The locals of a call of request() that has not started *)
IdleRequest ==
    [ req |-> None, url |-> None, headers |-> None, timeout |-> None,
      clientAtIssue |-> None, fetched |-> <<>>, timers |-> <<>>, pc |-> "idle",
      retries |-> MAX_RETRIES, skipRetry |-> FALSE, attempt |-> 0,
      lastError |-> None, response |-> None, delay |-> None,
      outcomes |-> <<>>, trace |-> <<>>, result |-> None, raised |-> None ]

(* The locals of the running request *)
Running ==
    [ req |-> req, url |-> url, headers |-> headers, timeout |-> timeout,
      clientAtIssue |-> clientAtIssue, fetched |-> fetched, timers |-> timers,
      pc |-> pc,
      retries |-> retries, skipRetry |-> skipRetry, attempt |-> attempt,
      lastError |-> lastError, response |-> response, delay |-> delay,
      outcomes |-> outcomes, trace |-> trace, result |-> result,
      raised |-> raised ]

(* No request has been issued on the client. *)
NoRequest ==
    /\ req = IdleRequest.req
    /\ url = IdleRequest.url
    /\ headers = IdleRequest.headers
    /\ timeout = IdleRequest.timeout
    /\ clientAtIssue = IdleRequest.clientAtIssue
    /\ fetched = IdleRequest.fetched
    /\ timers = IdleRequest.timers
    /\ pc = IdleRequest.pc
    /\ retries = IdleRequest.retries
    /\ skipRetry = IdleRequest.skipRetry
    /\ attempt = IdleRequest.attempt
    /\ lastError = IdleRequest.lastError
    /\ response = IdleRequest.response
    /\ delay = IdleRequest.delay
    /\ outcomes = IdleRequest.outcomes
    /\ trace = IdleRequest.trace
    /\ result = IdleRequest.result
    /\ raised = IdleRequest.raised
    /\ other = IdleRequest

(* new ApiClient(baseUrlArg) with NEXT_PUBLIC_API_URL = envUrl, lines 82-93 *)
Constructed(baseUrlArg, envUrl) ==
    /\ baseUrl = ConstructBaseUrl(baseUrlArg, envUrl, hasWindow)
    /\ authToken = None
    /\ defaultHeaders = InitialHeaders
    /\ lastSetToken = None
    /\ tokenRead = None

Init ==
    /\ hasWindow \in BOOLEAN
    /\ Constructed(None, None)
    /\ NoRequest
    /\ call = None

----------------------------------------------------------------------------
(* Steps of the request body, lines 158-263 *)

(* `throw e` that leaves request(). *)
Raise(e, le, tr) ==
    /\ pc' = "raised"
    /\ raised' = Some(e)
    /\ lastError' = le
    /\ trace' = tr
    /\ delay' = None
    /\ UNCHANGED <<attempt, result, fetched>>

(* `return v` *)
Return(v, tr) ==
    /\ pc' = "returned"
    /\ result' = Some(v)
    /\ trace' = tr
    /\ delay' = None
    /\ UNCHANGED <<attempt, lastError, raised, fetched>>

(* `await sleep(ms)` *)
Sleep(kind, ms, le, tr) ==
    /\ pc' = "sleep"
    /\ delay' = Some(ms)
    /\ trace' = Append(tr, kind)
    /\ lastError' = le
    /\ UNCHANGED <<attempt, result, raised, fetched>>

(* The head of the for loop with loop variable a (line 160): the next      *)
(* network call (lines 163-172), or line 263 when the loop is over.        *)
LoopCondition_OneMore(a, r) == a <= r + 1

LoopCondition(a, r) == a <= r

LoopHead(a, r, le, tr) ==
    IF LoopCondition(a, r)
    THEN /\ pc' = "fetch"
         /\ attempt' = a
         /\ trace' = Append(tr, "fetch")
         /\ fetched' = Append(fetched,
                [url |-> url'[1], headers |-> headers'[1], timeout |-> timeout'[1],
                 signal |-> EffectiveSignal(req'[1].signal, Len(fetched) + 1)])
         /\ lastError' = le
         /\ delay' = None
         /\ UNCHANGED <<result, raised>>
    ELSE /\ pc' = "raised"
         /\ attempt' = a
         /\ raised' = Some(IF le # None THEN le[1]
                           ELSE ApiError("Request failed", 500, Undefined))
         /\ trace' = tr
         /\ lastError' = le
         /\ delay' = None
         /\ UNCHANGED <<result, fetched>>

IsAbort_WrongName(e) == e.name = "TimeoutError"

(* Line 239: the fetch was aborted by the timeout. *)
IsAbort(e) == e.name = "AbortError"

IsClientError_Below400(e) == IsApiError(e) /\ e.status[1] < 400

(* Line 244: error instanceof ApiError && error.status < 500 *)
IsClientError(e) == IsApiError(e) /\ e.status[1] < SERVER_ERROR_FLOOR

NetworkRetry_LastToo(a, r, skip) == a <= r /\ ~skip

(* Line 249: attempt < retries && !skipRetry *)
NetworkRetry(a, r, skip) == a < r /\ ~skip

(* The catch block, lines 235-260, for the caught error e. *)
Catch(e, tr, jitter) ==
    IF IsAbort(e)
    THEN Raise(ApiError("Request timeout", 408, Undefined), Some(e), tr)
    ELSE IF IsClientError(e)
    THEN Raise(e, Some(e), tr)
    ELSE IF NetworkRetry(attempt, retries, skipRetry)
    THEN Sleep("sleep-backoff", Some(calculateRetryDelay(attempt, jitter)), Some(e), tr)
    ELSE LoopHead(attempt + 1, retries, Some(e), tr)

RateLimitRetry_IgnoresSkip(a, r, skip) == a < r

(* Line 183: attempt < retries && !skipRetry *)
RateLimitRetry(a, r, skip) == a < r /\ ~skip

ResponseRetry_LastToo(status, a, r, skip) ==
    isRetryableError(status) /\ a <= r /\ ~skip

(* Lines 204-208 *)
ResponseRetry(status, a, r, skip) == isRetryableError(status) /\ a < r /\ ~skip

DispatchAuthExpired_Never(tr) == tr

(* Lines 192-194: window.dispatchEvent(new CustomEvent('auth-expired')) *)
DispatchAuthExpired(tr) == IF hasWindow THEN Append(tr, "auth-expired") ELSE tr

(* Lines 176-234 for the response resp. *)
HandleResponse(resp, jitter) ==
    LET rateLimited == resp.status = 429
        tr401 == DispatchAuthExpired(trace)
        errorData == OrDefault(resp.json, EmptyErrorData)
    IN  IF rateLimited /\ RateLimitRetry(attempt, retries, skipRetry)
        THEN Sleep("sleep-rate-limit", RateLimitDelay(resp.retryAfter), lastError, trace)
        ELSE IF resp.status = 401
        THEN Catch(ApiError("Authentication expired", 401, Undefined), tr401, jitter)
        ELSE IF ~IsOk(resp.status)
        THEN IF ResponseRetry(resp.status, attempt, retries, skipRetry)
             THEN Sleep("sleep-backoff", Some(calculateRetryDelay(attempt, jitter)),
                        lastError, trace)
             ELSE Catch(ApiError(ErrorMessage(errorData, resp.status), resp.status,
                                 errorData.details), trace, jitter)
        ELSE IF IsJson(resp.contentType)
        THEN IF resp.json # None
             THEN Return(resp.json[1], trace)
             ELSE Catch(RuntimeError("SyntaxError", attempt), trace, jitter)
        ELSE Return(EmptyObject, trace)

----------------------------------------------------------------------------
(* Actions *)

(* Line 164: the step that issues a network call arms its timer first. tm  *)
(* are the timers when the step reaches the loop head.                     *)
ArmNext(tm) == IF pc' = "fetch" THEN Append(tm, "armed") ELSE tm

(* timers with the timer of the pending network call set to status *)
CurrentTimer(status) == [timers EXCEPT ![Len(timers)] = status]

(* The pending network call listens to the signal of its own controller. *)
OwnSignal == fetched[Len(fetched)].signal = Controller(Len(fetched))

(* request(method, path, body, config) is called: lines 132-172 up to the   *)
(* first `await fetch`.                                                    *)
Request(path, body, config) ==
    /\ pc = "idle"
    /\ req' = Some([path |-> path, body |-> body, timeout |-> config.timeout,
                    headers |-> config.headers, signal |-> config.signal])
    /\ clientAtIssue' = Some([authToken |-> authToken, lastSetToken |-> lastSetToken,
                              defaultHeaders |-> defaultHeaders])
    /\ timeout' = Some(EffectiveTimeout(config.timeout, body))
    /\ retries' = OrDefault(config.retries, MAX_RETRIES)
    /\ skipRetry' = OrDefault(config.skipRetry, FALSE)
    /\ url' = Some(ResolveUrl(baseUrl, path))
    /\ headers' = Some(BuildHeaders(defaultHeaders, config.headers, authToken, body))
    /\ LoopHead(0, retries', None, trace)
    /\ timers' = ArmNext(<<>>)
    /\ response' = None
    /\ UNCHANGED <<hasWindow, clientVars, outcomes, call, other>>

(* The pending fetch resolves with a response: clearTimeout at line 174,    *)
(* then lines 176-234.                                                     *)
FetchResolves(resp, jitter) ==
    /\ pc = "fetch"
    /\ UNCHANGED <<hasWindow, clientVars, issueVars, retries, skipRetry, call, other>>
    /\ outcomes' = Append(outcomes, Outcome("response", Some(resp.status)))
    /\ HandleResponse(resp, jitter)
    /\ timers' = ArmNext(CurrentTimer("cleared"))
    /\ response' = IF pc' = "fetch" THEN None ELSE Some(resp)

(* The pending fetch rejects: with a TypeError when the transport fails,   *)
(* with an AbortError when its signal is aborted, which for the signal of  *)
(* its own controller is its timer firing (line 164). The catch block      *)
(* (lines 235-260) clears no timer.                                        *)
FetchRejects(name, jitter) ==
    /\ pc = "fetch"
    /\ UNCHANGED <<hasWindow, clientVars, issueVars, retries, skipRetry, call, other>>
    /\ outcomes' = Append(outcomes, Outcome(name, None))
    /\ Catch(RuntimeError(name, attempt), trace, jitter)
    /\ timers' = ArmNext(IF name = "AbortError" /\ OwnSignal
                         THEN CurrentTimer("fired") ELSE timers)
    /\ response' = None

(* The pending sleep elapses: `continue`. *)
SleepElapses_SameAttempt ==
    /\ pc = "sleep"
    /\ UNCHANGED <<hasWindow, clientVars, issueVars, retries, skipRetry, outcomes, call, other>>
    /\ LoopHead(attempt, retries, lastError, trace)
    /\ timers' = ArmNext(timers)
    /\ response' = None

SleepElapses ==
    /\ pc = "sleep"
    /\ UNCHANGED <<hasWindow, clientVars, issueVars, retries, skipRetry, outcomes, call, other>>
    /\ LoopHead(attempt + 1, retries, lastError, trace)
    /\ timers' = ArmNext(timers)
    /\ response' = None

Next ==
    \/ \E config \in Configs : Request(PlainPath, PlainBody, config)
    \/ \E resp \in Responses, jitter \in JitterValues : FetchResolves(resp, jitter)
    \/ \E name \in FetchErrors, jitter \in JitterValues : FetchRejects(name, jitter)
    \/ SleepElapses

Spec == Init /\ [][Next]_vars

----------------------------------------------------------------------------
(* The issue of a request: url, timeout and attempts, for clients built    *)
(* with and without a base URL.                                            *)

BaseUrlArgs == {None, Some(<<>>), Some(<<"h", "t", "t", "p", ":", "/", "/", "b">>)}
EnvUrls == {None, Some(<<"h", "t", "t", "p", ":", "/", "/", "e">>)}

Paths ==
    { <<"/", "a">>,
      <<"h", "t", "t", "p", ":", "/", "/", "x", "/", "a">>,
      <<"h", "t", "t", "p", "s", ":", "/", "/", "x", "/", "a">>,
      <<"f", "t", "p", ":", "/", "/", "x", "/", "a">>,
      <<"h", "t", "t", "p", "d", "/", "a">>,
      <<"H", "T", "T", "P", ":", "/", "/", "x", "/", "a">> }

Bodies == {"undefined", "json", "FormData"}

TimeoutArgs == {None, Some(0), Some(5000)}

IssueConfigs ==
    [retries : {Some(1)}, skipRetry : {None}, timeout : TimeoutArgs, headers : {None},
     signal : {None}]

IssueResponses == {r \in Responses : r.status \in {200, 503} /\ r.json = None}

IssueInit ==
    /\ hasWindow \in BOOLEAN
    /\ \E baseUrlArg \in BaseUrlArgs, envUrl \in EnvUrls : Constructed(baseUrlArg, envUrl)
    /\ NoRequest
    /\ call = None

IssueNext ==
    \/ \E path \in Paths, body \in Bodies, config \in IssueConfigs :
            Request(path, body, config)
    \/ \E resp \in IssueResponses : FetchResolves(resp, 0)
    \/ FetchRejects("AbortError", 0)
    \/ SleepElapses

IssueSpec == IssueInit /\ [][IssueNext]_vars

----------------------------------------------------------------------------
(* The client's configuration methods, lines 95-121, called at any time,   *)
(* also while a request is suspended.                                      *)

(* setAuthToken(token) *)
SetAuthToken_KeepsOnNull(token) ==
    /\ authToken' = IF token = None THEN authToken ELSE token
    /\ lastSetToken' = Some(token)
    /\ UNCHANGED <<hasWindow, baseUrl, defaultHeaders, tokenRead, requestVars, call, other>>

SetAuthToken(token) ==
    /\ authToken' = token
    /\ lastSetToken' = Some(token)
    /\ UNCHANGED <<hasWindow, baseUrl, defaultHeaders, tokenRead, requestVars, call, other>>

(* getAuthToken() *)
GetAuthToken ==
    /\ tokenRead' = Some([returned |-> authToken, lastSetToken |-> lastSetToken])
    /\ UNCHANGED <<hasWindow, baseUrl, authToken, defaultHeaders, lastSetToken,
                   requestVars, call, other>>

(* setHeader(key, value) *)
SetHeader_Aliased(key, value) ==
    /\ defaultHeaders' = WithHeader(defaultHeaders, key, value)
    /\ headers' = IF headers = None THEN None
                  ELSE Some(WithHeader(headers[1], key, value))
    /\ UNCHANGED <<hasWindow, baseUrl, authToken, lastSetToken, tokenRead,
                   req, url, timeout, clientAtIssue, fetched, timers, pc, retries,
                   skipRetry, attempt, lastError, response, delay, outcomes, trace,
                   result, raised, call, other>>

SetHeader(key, value) ==
    /\ defaultHeaders' = WithHeader(defaultHeaders, key, value)
    /\ UNCHANGED <<hasWindow, baseUrl, authToken, lastSetToken, tokenRead,
                   requestVars, call, other>>

(* removeHeader(key) *)
RemoveHeader(key) ==
    /\ defaultHeaders' = WithoutHeader(defaultHeaders, key)
    /\ UNCHANGED <<hasWindow, baseUrl, authToken, lastSetToken, tokenRead,
                   requestVars, call, other>>

Tokens == {None, Some(""), Some("t1"), Some("t2")}

DefaultHeaderKeys == {"Content-Type", "content-type"}

DefaultHeaderValues == {"text/plain"}

HeaderArgs ==
    { None,
      Some(<<[name |-> "Content-Type", value |-> "o"]>>),
      Some(<<[name |-> "content-type", value |-> "o"]>>),
      Some(<<[name |-> "Authorization", value |-> "o"]>>),
      Some(<<[name |-> "authorization", value |-> "o"]>>) }

HeaderBodies == {"json", "FormData"}

HeaderConfigs ==
    [retries : {Some(1)}, skipRetry : {None}, timeout : {None}, headers : HeaderArgs,
     signal : {None}]

HeaderResponses ==
    {r \in Responses : /\ r.json = None
                       /\ \/ r.status = 200 /\ r.contentType = Some(<<"text/html">>)
                          \/ r.status = 503}

HeaderInit ==
    /\ hasWindow = TRUE
    /\ Constructed(None, None)
    /\ NoRequest
    /\ call = None

HeaderNext ==
    \/ \E token \in Tokens : SetAuthToken(token)
    \/ GetAuthToken
    \/ \E key \in DefaultHeaderKeys, value \in DefaultHeaderValues : SetHeader(key, value)
    \/ \E key \in DefaultHeaderKeys : RemoveHeader(key)
    \/ \E body \in HeaderBodies, config \in HeaderConfigs : Request(PlainPath, body, config)
    \/ \E resp \in HeaderResponses : FetchResolves(resp, 0)
    \/ SleepElapses

HeaderSpec == HeaderInit /\ [][HeaderNext]_vars

----------------------------------------------------------------------------
(* Two requests of one client. Every local of request() (lines 132-158,    *)
(* the loop variable, the timer) belongs to the call; while a call is      *)
(* suspended in `await fetch` or `await sleep` the event loop may run the  *)
(* other one.                                                              *)

Switch_SharedAttempt ==
    /\ req' = other.req
    /\ url' = other.url
    /\ headers' = other.headers
    /\ timeout' = other.timeout
    /\ clientAtIssue' = other.clientAtIssue
    /\ fetched' = other.fetched
    /\ timers' = other.timers
    /\ pc' = other.pc
    /\ retries' = other.retries
    /\ skipRetry' = other.skipRetry
    /\ lastError' = other.lastError
    /\ response' = other.response
    /\ delay' = other.delay
    /\ outcomes' = other.outcomes
    /\ trace' = other.trace
    /\ result' = other.result
    /\ raised' = other.raised
    /\ attempt' = attempt
    /\ other' = Running
    /\ UNCHANGED <<hasWindow, clientVars, call>>

Switch ==
    /\ req' = other.req
    /\ url' = other.url
    /\ headers' = other.headers
    /\ timeout' = other.timeout
    /\ clientAtIssue' = other.clientAtIssue
    /\ fetched' = other.fetched
    /\ timers' = other.timers
    /\ pc' = other.pc
    /\ retries' = other.retries
    /\ skipRetry' = other.skipRetry
    /\ attempt' = other.attempt
    /\ lastError' = other.lastError
    /\ response' = other.response
    /\ delay' = other.delay
    /\ outcomes' = other.outcomes
    /\ trace' = other.trace
    /\ result' = other.result
    /\ raised' = other.raised
    /\ other' = Running
    /\ UNCHANGED <<hasWindow, clientVars, call>>

ConcConfigs ==
    [retries : {Some(1), Some(2)}, skipRetry : {None}, timeout : {None}, headers : {None},
     signal : {None}]

ConcResponses ==
    {r \in Responses :
        \/ r.status = 200 /\ r.contentType = Some(<<"text/html">>) /\ r.json = None
        \/ r.status = 503 /\ r.json = None
        \/ r.status = 429 /\ r.retryAfter = Some(<<"5">>) /\ r.json = None}

ConcInit ==
    /\ hasWindow = TRUE
    /\ Constructed(None, None)
    /\ NoRequest
    /\ call = None

ConcNext ==
    \/ \E config \in ConcConfigs : Request(PlainPath, PlainBody, config)
    \/ \E resp \in ConcResponses : FetchResolves(resp, 0)
    \/ SleepElapses
    \/ Switch

ConcSpec == ConcInit /\ [][ConcNext]_vars

----------------------------------------------------------------------------
(* Timeout timers, lines 163-164 and 174. Every iteration creates its own  *)
(* controller and arms a timer that aborts it. A timer that was not        *)
(* cleared fires once its timeout has passed, whatever the request does by *)
(* then. The timer of the pending call aborting the signal that call       *)
(* listens to is FetchRejects("AbortError"); TimerFires is every other     *)
(* case: the call of the timer has ended, or it listens to another signal. *)

TimerFires_SharedController(k) ==
    /\ timers[k] = "armed"
    /\ ~(pc = "fetch" /\ k = Len(timers) /\ OwnSignal)
    /\ IF pc = "fetch"
       THEN /\ outcomes' = Append(outcomes, Outcome("AbortError", None))
            /\ Catch(RuntimeError("AbortError", attempt), trace, 0)
            /\ response' = None
            /\ timers' = [timers EXCEPT ![k] = "fired"]
            /\ UNCHANGED <<hasWindow, clientVars, issueVars, retries, skipRetry,
                           call, other>>
       ELSE /\ timers' = [timers EXCEPT ![k] = "fired"]
            /\ UNCHANGED <<hasWindow, clientVars, issueVars, fetched, pc, retries,
                           skipRetry, attempt, lastError, response, delay, outcomes,
                           trace, result, raised, call, other>>

TimerFires(k) ==
    /\ timers[k] = "armed"
    /\ ~(pc = "fetch" /\ k = Len(timers) /\ OwnSignal)
    /\ timers' = [timers EXCEPT ![k] = "fired"]
    /\ UNCHANGED <<hasWindow, clientVars, issueVars, fetched, pc, retries,
                   skipRetry, attempt, lastError, response, delay, outcomes,
                   trace, result, raised, call, other>>

TimerConfigs ==
    [retries : {Some(1), Some(2)}, skipRetry : {None}, timeout : {None},
     headers : {None}, signal : {None, Some(CallerSignal)}]

TimerResponses ==
    {r \in Responses :
        \/ r.status = 200 /\ r.contentType = Some(<<"text/html">>) /\ r.json = None
        \/ r.status = 503 /\ r.json = None}

TimerInit ==
    /\ hasWindow = TRUE
    /\ Constructed(None, None)
    /\ NoRequest
    /\ call = None

TimerNext ==
    \/ \E config \in TimerConfigs : Request(PlainPath, PlainBody, config)
    \/ \E resp \in TimerResponses : FetchResolves(resp, 0)
    \/ \E name \in FetchErrors : FetchRejects(name, 0)
    \/ SleepElapses
    \/ \E k \in DOMAIN timers : TimerFires(k)
    \/ Switch

TimerSpec == TimerInit /\ [][TimerNext]_vars

----------------------------------------------------------------------------
(* The client is reconfigured while requests are suspended, and further    *)
(* requests are issued afterwards.                                         *)

ReconfigTokens == {None, Some("t1")}

ReconfigConfigs ==
    [retries : {Some(1)}, skipRetry : {None}, timeout : {None}, headers : {None},
     signal : {None}]

ReconfigInit ==
    /\ hasWindow = TRUE
    /\ Constructed(None, None)
    /\ NoRequest
    /\ call = None

ReconfigNext ==
    \/ \E token \in ReconfigTokens : SetAuthToken(token)
    \/ SetHeader("Content-Type", "text/plain")
    \/ RemoveHeader("Content-Type")
    \/ \E config \in ReconfigConfigs : Request(PlainPath, PlainBody, config)
    \/ \E resp \in TimerResponses : FetchResolves(resp, 0)
    \/ SleepElapses
    \/ Switch

ReconfigSpec == ReconfigInit /\ [][ReconfigNext]_vars

----------------------------------------------------------------------------
(* One request under the assumption that every pending network call is    *)
(* eventually settled (a response, a transport failure or an abort) and    *)
(* every pending sleep eventually elapses.                                 *)

LiveResponses ==
    {r \in Responses :
        /\ r.json = None
        /\ r.contentType \in {Some(<<"application/json">>), None}
        /\ r.retryAfter \in {None, Some(<<"5">>)}
        /\ r.status \in {200, 401, 404, 429, 503}}

FetchSettles ==
    \/ \E resp \in LiveResponses : FetchResolves(resp, 0)
    \/ \E name \in FetchErrors : FetchRejects(name, 0)

LiveNext ==
    \/ \E config \in Configs : Request(PlainPath, PlainBody, config)
    \/ FetchSettles
    \/ SleepElapses

LiveSpec ==
    /\ Init
    /\ [][LiveNext]_vars
    /\ WF_vars(FetchSettles)
    /\ WF_vars(SleepElapses)

----------------------------------------------------------------------------
(* calculateRetryDelay on its own: the attempt number and the value of     *)
(* Math.random() * 1000 are drawn first, then the function is applied.     *)

JitterRange == 0..(JITTER_RANGE - 1)

DelayInit ==
    /\ hasWindow = FALSE
    /\ Constructed(None, None)
    /\ NoRequest
    /\ call \in [fn : {"calculateRetryDelay"}, n : 0..MaxAttemptArg,
                 jitter : JitterRange, out : {None}]

ApplyCalculateRetryDelay ==
    /\ call # None
    /\ call.fn = "calculateRetryDelay"
    /\ call.out = None
    /\ call' = [call EXCEPT !.out = Some(calculateRetryDelay(call.n, call.jitter))]
    /\ UNCHANGED <<hasWindow, clientVars, requestVars, other>>

DelayNext == ApplyCalculateRetryDelay

DelaySpec == DelayInit /\ [][DelayNext]_vars

----------------------------------------------------------------------------
(* The string and timing helpers of the utilities module, each on its own. *)

Max(a, b) == IF a >= b THEN a ELSE b

(* str.slice(start, end): a negative index counts from the end of str, and *)
(* both indices are clamped to 0..str.length.                              *)
Clamp(index, len) == IF index < 0 THEN Max(len + index, 0) ELSE Min(index, len)

slice(str, start, end) ==
    SubSeq(str, Clamp(start, Len(str)) + 1, Clamp(end, Len(str)))

Ellipsis == <<".", ".", ".">>

(* truncate(str, maxLength) *)
truncate(str, maxLength) ==
    IF Len(str) <= maxLength THEN str
    ELSE slice(str, 0, maxLength - 3) \o Ellipsis

StringChars == {"a", "b", "."}

Strings == UNION {[1..n -> StringChars] : n \in 0..MaxStrLen}

TruncateInit ==
    /\ hasWindow = FALSE
    /\ Constructed(None, None)
    /\ NoRequest
    /\ call \in [fn : {"truncate"}, str : Strings, maxLength : 0..MaxLengthArg,
                 out : {None}]

ApplyTruncate ==
    /\ call # None
    /\ call.fn = "truncate"
    /\ call.out = None
    /\ call' = [call EXCEPT !.out = Some(truncate(call.str, call.maxLength))]
    /\ UNCHANGED <<hasWindow, clientVars, requestVars, other>>

TruncateNext == ApplyTruncate

TruncateSpec == TruncateInit /\ [][TruncateNext]_vars

(* throttle(fn, ms) and debounce(fn, ms).  The closure a call of either    *)
(* returns is held in the variable call: its captured variables, the       *)
(* clock, and the log of what happened, in order: a "call" event for every *)
(* call of the returned function and an "invoke" event for every call of   *)
(* fn, which names in "of" the position of the call whose arguments it     *)
(* passes on.                                                              *)
CallEvent(at, args) == [kind |-> "call", at |-> at, args |-> args, of |-> 0]

InvokeEvent(at, args, of) == [kind |-> "invoke", at |-> at, args |-> args, of |-> of]

CallerArgs == {"x", "y"}

MsArgs == 0..MaxMs

NumCalls(events) == Cardinality({i \in DOMAIN events : events[i].kind = "call"})

(* Date.now() counts the milliseconds since 1970: a reading is beyond any  *)
(* interval a caller passes as ms, and the wall clock may step either way  *)
(* between two readings.                                                   *)
ClockReadings == MaxMs..(MaxMs + MaxClock)

ThrottleInit ==
    /\ hasWindow = FALSE
    /\ Constructed(None, None)
    /\ NoRequest
    /\ call \in [fn : {"throttle"}, ms : MsArgs, now : ClockReadings,
                 lastCall : {0}, events : {<<>>}]

ClockMoves(t) ==
    /\ call # None
    /\ call.fn = "throttle"
    /\ t # call.now
    /\ call' = [call EXCEPT !.now = t]
    /\ UNCHANGED <<hasWindow, clientVars, requestVars, other>>

(* The returned function with lastCall left as it was. *)
ThrottledCall_NoStamp(args) ==
    /\ call # None
    /\ call.fn = "throttle"
    /\ NumCalls(call.events) < MaxCalls
    /\ LET now == call.now
           called == Append(call.events, CallEvent(now, args))
       IN  IF now - call.lastCall >= call.ms
           THEN call' = [call EXCEPT
                    !.events = Append(called, InvokeEvent(now, args, Len(called)))]
           ELSE call' = [call EXCEPT !.events = called]
    /\ UNCHANGED <<hasWindow, clientVars, requestVars, other>>

(* The function throttle returns, called with args. *)
ThrottledCall(args) ==
    /\ call # None
    /\ call.fn = "throttle"
    /\ NumCalls(call.events) < MaxCalls
    /\ LET now == call.now
           called == Append(call.events, CallEvent(now, args))
       IN  IF now - call.lastCall >= call.ms
           THEN call' = [call EXCEPT
                    !.lastCall = now,
                    !.events = Append(called, InvokeEvent(now, args, Len(called)))]
           ELSE call' = [call EXCEPT !.events = called]
    /\ UNCHANGED <<hasWindow, clientVars, requestVars, other>>

ThrottleNext ==
    \/ \E t \in ClockReadings : ClockMoves(t)
    \/ \E args \in CallerArgs : ThrottledCall(args)

ThrottleSpec == ThrottleInit /\ [][ThrottleNext]_vars

(* debounce(fn, ms).  timeoutId is 0 while the captured variable is still  *)
(* undefined, and afterwards the position of the call that set the timer.  *)
(* pending holds the timers that are set and have neither fired nor been   *)
(* cleared; now is the clock of the timers, which only moves forward.  A   *)
(* timer fires no sooner than ms after it was set, and as much later as    *)
(* the event loop takes to reach it.                                       *)
Timer(id, due, args) == [id |-> id, due |-> due, args |-> args]

TimerHorizon == MaxClock + MaxMs

DebounceInit ==
    /\ hasWindow = FALSE
    /\ Constructed(None, None)
    /\ NoRequest
    /\ call \in [fn : {"debounce"}, ms : MsArgs, now : {0}, timeoutId : {0},
                 pending : {{}}, events : {<<>>}]

TimePasses ==
    /\ call # None
    /\ call.fn = "debounce"
    /\ call.now < TimerHorizon
    /\ call' = [call EXCEPT !.now = @ + 1]
    /\ UNCHANGED <<hasWindow, clientVars, requestVars, other>>

(* clearTimeout(id): a no-op for undefined and for a timer that has fired. *)
clearTimeout(pending, id) == {t \in pending : t.id # id}

(* The returned function without its clearTimeout. *)
DebouncedCall_NoClear(args) ==
    /\ call # None
    /\ call.fn = "debounce"
    /\ NumCalls(call.events) < MaxCalls
    /\ call.now <= MaxClock
    /\ LET called == Append(call.events, CallEvent(call.now, args))
           id == Len(called)
       IN  call' = [call EXCEPT
               !.events = called,
               !.pending = call.pending
                               \cup {Timer(id, call.now + call.ms, args)},
               !.timeoutId = id]
    /\ UNCHANGED <<hasWindow, clientVars, requestVars, other>>

(* The function debounce returns, called with args. *)
DebouncedCall(args) ==
    /\ call # None
    /\ call.fn = "debounce"
    /\ NumCalls(call.events) < MaxCalls
    /\ call.now <= MaxClock
    /\ LET called == Append(call.events, CallEvent(call.now, args))
           id == Len(called)
       IN  call' = [call EXCEPT
               !.events = called,
               !.pending = clearTimeout(call.pending, call.timeoutId)
                               \cup {Timer(id, call.now + call.ms, args)},
               !.timeoutId = id]
    /\ UNCHANGED <<hasWindow, clientVars, requestVars, other>>

(* The callback of timer t runs: () => fn(...args). *)
DebounceTimerFires(t) ==
    /\ call # None
    /\ call.fn = "debounce"
    /\ t \in call.pending
    /\ call.now >= t.due
    /\ call' = [call EXCEPT
           !.pending = @ \ {t},
           !.events = Append(@, InvokeEvent(call.now, t.args, t.id))]
    /\ UNCHANGED <<hasWindow, clientVars, requestVars, other>>

SomeTimerFires == \E t \in call.pending : DebounceTimerFires(t)

DebounceNext ==
    \/ TimePasses
    \/ \E args \in CallerArgs : DebouncedCall(args)
    \/ SomeTimerFires

(* Time passes, and the event loop runs the callback of a timer that is    *)
(* due.                                                                    *)
DebounceSpec ==
    DebounceInit /\ [][DebounceNext]_vars
        /\ WF_vars(TimePasses) /\ WF_vars(SomeTimerFires)

----------------------------------------------------------------------------
(* Vocabulary of the properties *)

Count(seq, S) == Cardinality({i \in 1..Len(seq) : seq[i] \in S})

Last(seq) == seq[Len(seq)]

SleepKinds == {"sleep-rate-limit", "sleep-backoff"}

Calls == Count(trace, {"fetch"})

Sleeps == Count(trace, SleepKinds)

BackoffWaits == Count(trace, {"sleep-backoff"})

Broadcasts == Count(trace, {"auth-expired"})

Terminal == pc \in {"returned", "raised"}

IsResponse(o, status) == o = Outcome("response", Some(status))

(* A failure response that the client is to retry: status >= 500, or 408. *)
RetryableFailure(o) ==
    /\ o.kind = "response"
    /\ (o.status[1] >= 500 \/ o.status[1] = 408)

Received401 == \E i \in 1..Len(outcomes) : IsResponse(outcomes[i], 401)

(* The request ended with network call i: nothing was called or slept on   *)
(* after it.                                                               *)
EndedAtCall(i) ==
    /\ i = Len(outcomes)
    /\ Calls = i
    /\ pc = "raised"
    /\ delay = None
    /\ Last(trace) \notin SleepKinds

(* The decimal text of a natural number. *)
RECURSIVE DecimalText(_)
DecimalText(n) ==
    IF n < 10 THEN <<Digits[n + 1]>>
    ELSE Append(DecimalText(n \div 10), Digits[(n % 10) + 1])

(* Numbers of seconds whose decimal text is among the Retry-After values. *)
SampleSeconds == {0, 5, 120}

----------------------------------------------------------------------------
(* C1: whatever the backend answers, a request issues at most retries + 1  *)
(* network calls (4 with the default retries = 3), and every call is made  *)
(* with an attempt index in 0..retries.                                    *)
C1_CallsBounded ==
    /\ Calls <= retries + 1
    /\ (pc = "fetch" => attempt \in 0..retries /\ attempt = Calls - 1)

C1_Witness ==
    /\ pc = "raised"
    /\ retries = MAX_RETRIES
    /\ Calls = MAX_RETRIES + 1

(* C2: with skipRetry set the request issues exactly one network call: as  *)
(* soon as that call has ended, whatever its outcome, the request has      *)
(* returned or raised.                                                     *)
C2_SkipRetrySingleCall ==
    skipRetry =>
        /\ Calls <= 1
        /\ (Len(outcomes) >= 1 => Terminal)

(* C3: whatever a request raises is an ApiError with a numeric status.     *)
C3_RaisedIsTyped ==
    pc = "raised" => IsApiError(raised[1]) /\ raised[1].status # None

(* C4: a 401 response at any attempt ends the request at once with an      *)
(* ApiError of status 401: no later network call, no sleep.                *)
C4_UnauthorizedEndsRequest ==
    \A i \in 1..Len(outcomes) :
        IsResponse(outcomes[i], 401) =>
            /\ EndedAtCall(i)
            /\ raised = Some(ApiError("Authentication expired", 401, Undefined))

C4_Witness ==
    /\ pc = "raised"
    /\ Len(outcomes) >= 2
    /\ IsResponse(Last(outcomes), 401)
    /\ ~skipRetry
    /\ attempt < retries

(* C5, as stated: a request that received a 401 response has broadcast     *)
(* auth-expired exactly once.                                              *)
C5_BroadcastOnce ==
    Received401 => Broadcasts = 1

(* C5, amended: where a window object exists, a request that received a    *)
(* 401 response has broadcast auth-expired exactly once by the time its    *)
(* error is raised; where none exists it broadcasts nothing; and nothing   *)
(* is broadcast without a 401 response.                                    *)
C5_BroadcastOnceInBrowser ==
    /\ Received401 =>
        /\ pc = "raised"
        /\ Broadcasts = (IF hasWindow THEN 1 ELSE 0)
        /\ (hasWindow => Last(trace) = "auth-expired")
    /\ ~Received401 => Broadcasts = 0

C5_Witness ==
    /\ hasWindow
    /\ Received401
    /\ pc = "raised"
    /\ Broadcasts = 1

(* C6: a network call aborted by its timeout, at any attempt, ends the     *)
(* request at once with ApiError("Request timeout", 408): no retry.        *)
C6_TimeoutEndsRequest ==
    \A i \in 1..Len(outcomes) :
        outcomes[i].kind = "AbortError" =>
            /\ EndedAtCall(i)
            /\ raised = Some(ApiError("Request timeout", 408, Undefined))

C6_Witness ==
    /\ pc = "raised"
    /\ Len(outcomes) >= 2
    /\ Last(outcomes).kind = "AbortError"
    /\ ~skipRetry
    /\ attempt < retries

(* C7: with retry enabled, a request whose every call was answered with a  *)
(* retryable status (>= 500, or 408) ends only after retries + 1 calls,    *)
(* and then by raising an ApiError with the status of the last response.   *)
C7_RetriesExhausted ==
    (/\ ~skipRetry
     /\ Terminal
     /\ \A i \in 1..Len(outcomes) : RetryableFailure(outcomes[i]))
    =>  /\ pc = "raised"
        /\ Len(outcomes) = retries + 1
        /\ Calls = retries + 1
        /\ IsApiError(raised[1])
        /\ raised[1].status = Last(outcomes).status

C7_Witness ==
    /\ pc = "raised"
    /\ ~skipRetry
    /\ retries = MAX_RETRIES
    /\ Len(outcomes) = MAX_RETRIES + 1
    /\ \A i \in 1..Len(outcomes) : RetryableFailure(outcomes[i])
    /\ outcomes[1].status # Last(outcomes).status
    /\ \E i \in 1..Len(outcomes) : IsResponse(outcomes[i], 408)

(* C8: when the first k calls (0 <= k <= retries) were answered with a     *)
(* retryable failure (>= 500, or 408) and call k + 1 with a 2xx response   *)
(* whose JSON body decodes, the request has returned that body after       *)
(* exactly k backoff waits and k + 1 network calls.                        *)
C8_SuccessAfterFailures ==
    \A k \in 0..retries :
        (/\ Len(outcomes) = k + 1
         /\ \A i \in 1..k : RetryableFailure(outcomes[i])
         /\ outcomes[k + 1].kind = "response"
         /\ IsOk(outcomes[k + 1].status[1])
         /\ response # None
         /\ IsJson(response[1].contentType)
         /\ response[1].json # None)
        =>  /\ pc = "returned"
            /\ result = response[1].json
            /\ Calls = k + 1
            /\ BackoffWaits = k
            /\ Sleeps = k

(* C9: the wait that follows a retried 429 response is a rate-limit wait   *)
(* and never a backoff wait; it lasts N * 1000 ms when the response        *)
(* carries Retry-After: N (N a decimal number of seconds) and 60000 ms     *)
(* when it carries no Retry-After header.                                  *)
C9_RateLimitWait ==
    (pc = "sleep" /\ response # None /\ response[1].status = 429) =>
        /\ Last(trace) = "sleep-rate-limit"
        /\ (response[1].retryAfter = None => delay = Some(Some(60000)))
        /\ \A n \in SampleSeconds :
               response[1].retryAfter = Some(DecimalText(n)) =>
                   delay = Some(Some(n * 1000))

C9_Witness ==
    /\ pc = "sleep"
    /\ response # None
    /\ response[1].status = 429
    /\ response[1].retryAfter = Some(<<"5">>)
    /\ delay = Some(Some(5000))

(* C10: a 429 response to the last attempt (attempt = retries), or to a    *)
(* request with skipRetry set, ends the request at once, without a sleep   *)
(* or a further call, with an ApiError of status 429 whose message and     *)
(* details come from the response body.                                    *)
C10_RateLimitNotRetried ==
    \A i \in 1..Len(outcomes) :
        (IsResponse(outcomes[i], 429) /\ (i - 1 = retries \/ skipRetry)) =>
            /\ EndedAtCall(i)
            /\ response # None
            /\ LET errorData == OrDefault(response[1].json, EmptyErrorData)
                   message == IF errorData.error \notin {Undefined, ""}
                                  THEN errorData.error
                              ELSE IF errorData.message \notin {Undefined, ""}
                                  THEN errorData.message
                              ELSE "HTTP 429"
               IN  raised = Some([name |-> "ApiError", message |-> message,
                                  status |-> Some(429),
                                  details |-> errorData.details])

C10_Witness ==
    /\ pc = "raised"
    /\ ~skipRetry
    /\ retries >= 1
    /\ Len(outcomes) = retries + 1
    /\ IsResponse(Last(outcomes), 429)
    /\ raised[1].details = "D"

(* The decoded body of the response that ended the request, {} when the    *)
(* body did not decode.                                                    *)
LastErrorData == OrDefault(response[1].json, EmptyErrorData)

(* A text field of a decoded body that is there and not empty. *)
Present(field) == field \notin {Undefined, ""}

HttpText == [s \in Statuses |-> "HTTP " \o ToString(s)]

(* C11: a response with a 4xx status other than 401, 408 and 429 ends the  *)
(* request at once at any attempt, without a retry or a sleep; the error   *)
(* raised carries the status of the response, the details of its decoded   *)
(* body, and as message the body's error text, else its message text,      *)
(* else "HTTP <status>".                                                   *)
C11_ClientErrorEndsRequest ==
    \A i \in 1..Len(outcomes) :
        (/\ outcomes[i].kind = "response"
         /\ outcomes[i].status[1] \in 400..499
         /\ outcomes[i].status[1] \notin {401, 408, 429})
        =>  /\ EndedAtCall(i)
            /\ response # None
            /\ IsApiError(raised[1])
            /\ raised[1].status = outcomes[i].status
            /\ raised[1].details = LastErrorData.details
            /\ raised[1].message =
                   (IF Present(LastErrorData.error) THEN LastErrorData.error
                    ELSE IF Present(LastErrorData.message) THEN LastErrorData.message
                    ELSE HttpText[outcomes[i].status[1]])

C11_Witness ==
    /\ pc = "raised"
    /\ ~skipRetry
    /\ attempt >= 1
    /\ attempt < retries
    /\ IsResponse(Last(outcomes), 404)
    /\ raised[1].details = "D"
    /\ raised[1].message = "E"

(* 1000 * 2^n, by doubling. *)
RECURSIVE BaseDelay(_)
BaseDelay(n) == IF n = 0 THEN 1000 ELSE 2 * BaseDelay(n - 1)

(* d is a backoff delay for attempt n: in [1000 * 2^n, 1000 * 2^n + 1000), *)
(* clipped to 10000.                                                       *)
IsBackoffDelay(d, n) ==
    \/ d >= BaseDelay(n) /\ d < BaseDelay(n) + 1000 /\ d <= 10000
    \/ d = 10000 /\ BaseDelay(n) + 1000 > 10000

OnlyNetworkFailures ==
    /\ Len(outcomes) >= 1
    /\ \A i \in 1..Len(outcomes) : outcomes[i].kind = "TypeError"

(* C12: with retry enabled, a request whose every network call failed with *)
(* a transport error other than a timeout makes retries + 1 calls with one *)
(* exponential-backoff wait between consecutive calls, and then raises the *)
(* error of its last call.                                                 *)
C12_NetworkFailuresExhaust ==
    (~skipRetry /\ OnlyNetworkFailures) =>
        /\ pc = "sleep" =>
               /\ Last(trace) = "sleep-backoff"
               /\ delay # None /\ delay[1] # None
               /\ IsBackoffDelay(delay[1][1], attempt)
        /\ Terminal =>
               /\ pc = "raised"
               /\ Len(outcomes) = retries + 1
               /\ Len(trace) = 2 * retries + 1
               /\ \A j \in 1..Len(trace) :
                      trace[j] = (IF j % 2 = 1 THEN "fetch" ELSE "sleep-backoff")
               /\ raised[1].name = "TypeError"
               /\ raised[1].thrownAt = retries

C12_Witness ==
    /\ pc = "raised"
    /\ ~skipRetry
    /\ retries = MAX_RETRIES
    /\ OnlyNetworkFailures
    /\ Sleeps = MAX_RETRIES

(* C13: a 2xx response ends the request with a result and without another  *)
(* network call: the decoded body when the content type includes           *)
(* application/json, the empty object otherwise.                           *)
C13_SuccessReturns ==
    \A i \in 1..Len(outcomes) :
        (outcomes[i].kind = "response" /\ IsOk(outcomes[i].status[1])) =>
            /\ i = Len(outcomes)
            /\ Calls = i
            /\ pc = "returned"
            /\ response # None
            /\ result = (IF IsJson(response[1].contentType)
                         THEN response[1].json
                         ELSE Some(EmptyObject))

(* C14: for every attempt number N >= 0 and jitter in [0, 1000),           *)
(* calculateRetryDelay(N) is min(1000 * 2^N + jitter, 10000): inside       *)
(* [1000 * 2^N, 1000 * 2^N + 1000) when that interval lies below 10000,    *)
(* and never above 10000.                                                  *)
C14_DelayFormula ==
    (call # None /\ call.out # None) =>
        LET d == call.out[1]
            base == BaseDelay(call.n)
        IN  /\ d = (IF base + call.jitter <= 10000 THEN base + call.jitter ELSE 10000)
            /\ (base + 1000 <= 10000 => d >= base /\ d < base + 1000)
            /\ d <= 10000

C14_Witness ==
    /\ call # None
    /\ call.n = 4
    /\ call.jitter = 999
    /\ call.out = Some(10000)

(* ---- C15 ---- *)

(* C15: the timeout armed for each attempt of a request is the per-request *)
(* override when one is given, otherwise 60000 ms for a FormData body,     *)
(* otherwise 30000 ms; every attempt of the request arms the same value.   *)
C15_TimeoutArmed ==
    req # None =>
        LET expected == IF req[1].timeout # None THEN req[1].timeout[1]
                        ELSE IF req[1].body = "FormData" THEN 60000
                        ELSE 30000
        IN  \A i \in DOMAIN fetched : fetched[i].timeout = expected

C15_Witness ==
    /\ req # None
    /\ req[1].body = "FormData"
    /\ req[1].timeout = None
    /\ Len(fetched) = 2
    /\ fetched[1].timeout = 60000
    /\ fetched[2].timeout = 60000

(* ---- C16 ---- *)

(* The value stored under exactly the key k of a header object *)
Entry(h, k) ==
    IF k \in HeaderNames(h)
    THEN Some(h[CHOOSE i \in DOMAIN h : h[i].name = k].value)
    ELSE None

Overrides == OrDefault(req[1].headers, NoHeaders)

IsUpload == req[1].body = "FormData"

Elements(seq) == {seq[i] : i \in DOMAIN seq}

(* C16: for a FormData body no attempt emits a Content-Type header,        *)
(* whatever the default headers and the overrides contain; for every other *)
(* body the default Content-Type: application/json is emitted unless it    *)
(* was removed or overridden.                                              *)
C16_ContentTypeEmitted ==
    req # None =>
        \A i \in DOMAIN fetched :
            LET emitted == HeaderValues(fetched[i].headers, "content-type")
            IN  IF IsUpload THEN emitted = <<>>
                ELSE (/\ Entry(clientAtIssue[1].defaultHeaders, "Content-Type")
                            = Some("application/json")
                      /\ HeaderValues(Overrides, "content-type") = <<>>)
                     => "application/json" \in Elements(emitted)

(* ---- C17 ---- *)

(* A key whose entry lines 149-156 may rewrite after the merge *)
SetAfterMerge(k) ==
    \/ k = "Authorization" /\ TokenIsSet(clientAtIssue[1].authToken)
    \/ k = "Content-Type" /\ IsUpload

(* C17: overrides win over client defaults on key collision, defaults are  *)
(* kept otherwise, and when a token is set the Authorization header every  *)
(* attempt emits is exactly "Bearer <token>", whatever the overrides       *)
(* contain.                                                                *)
C17_HeaderPrecedence ==
    req # None =>
        \A i \in DOMAIN fetched :
            LET h == fetched[i].headers
                d == clientAtIssue[1].defaultHeaders
            IN  /\ \A k \in HeaderNames(Overrides) :
                        ~SetAfterMerge(k) => Entry(h, k) = Entry(Overrides, k)
                /\ \A k \in HeaderNames(d) \ HeaderNames(Overrides) :
                        ~SetAfterMerge(k) => Entry(h, k) = Entry(d, k)
                /\ TokenIsSet(clientAtIssue[1].authToken) =>
                        HeaderValues(h, "authorization")
                            = <<"Bearer " \o clientAtIssue[1].authToken[1]>>

(* ---- C18 ---- *)

(* C18: a request carries the configuration current when it was issued:    *)
(* the token of the most recent setAuthToken as Authorization: Bearer      *)
(* <token> (no Authorization from the client after setAuthToken(null) or   *)
(* an empty token), the default headers as set and removed until then; and *)
(* getAuthToken returns the argument of the most recent setAuthToken.      *)
C18_CarriesCurrentConfig ==
    /\ req # None =>
            LET c == clientAtIssue[1]
                h == headers[1]
            IN  /\ c.lastSetToken # None =>
                        LET t == c.lastSetToken[1]
                        IN  IF t # None /\ t[1] # ""
                            THEN Entry(h, "Authorization") = Some("Bearer " \o t[1])
                            ELSE Entry(h, "Authorization") =
                                    IF "Authorization" \in HeaderNames(Overrides)
                                    THEN Entry(Overrides, "Authorization")
                                    ELSE Entry(c.defaultHeaders, "Authorization")
                /\ \A k \in DefaultHeaderKeys \ HeaderNames(Overrides) :
                        ~(k = "Content-Type" /\ IsUpload)
                            => Entry(h, k) = Entry(c.defaultHeaders, k)
                /\ \A i \in DOMAIN fetched : fetched[i].headers = h
    /\ (tokenRead # None /\ tokenRead[1].lastSetToken # None) =>
            tokenRead[1].returned = tokenRead[1].lastSetToken[1]

C18_Witness ==
    /\ req # None
    /\ clientAtIssue[1].lastSetToken = Some(Some("t2"))
    /\ clientAtIssue[1].defaultHeaders = <<>>
    /\ Len(fetched) = 2
    /\ fetched[2].headers = <<[name |-> "Authorization", value |-> "Bearer t2"]>>
    /\ lastSetToken = Some(None)
    /\ tokenRead = Some([returned |-> None, lastSetToken |-> Some(None)])

(* ---- C19 ---- *)

(* What a request went through: its position, attempt count, calls and    *)
(* waits, pending wait and outcome                                         *)
Course(r) ==
    [pc |-> r.pc, attempt |-> r.attempt, trace |-> r.trace, delay |-> r.delay,
     result |-> r.result, raised |-> r.raised]

(* C19: two requests of one client are independent: under every            *)
(* interleaving, two issued requests with the same configuration whose    *)
(* network calls had the same outcomes, both in a wait or both past it,    *)
(* are in the same position with the same attempt count, waits and         *)
(* outcome; and while one request waits, the network call of the other can *)
(* complete and a new request can be issued.                               *)
C19_RequestsIndependent ==
    /\ (/\ retries = other.retries
        /\ skipRetry = other.skipRetry
        /\ outcomes = other.outcomes
        /\ (pc = "idle") = (other.pc = "idle")
        /\ (pc = "sleep") = (other.pc = "sleep"))
            => Course(Running) = Course(other)
    /\ (other.pc = "sleep" /\ pc = "fetch")
            => \A resp \in ConcResponses : ENABLED FetchResolves(resp, 0)
    /\ (other.pc = "sleep" /\ pc = "idle")
            => \A config \in ConcConfigs : ENABLED Request(PlainPath, PlainBody, config)

C19_Witness ==
    /\ other.pc = "sleep"
    /\ Last(other.trace) = "sleep-rate-limit"
    /\ other.attempt = 0
    /\ pc = "returned"
    /\ trace = <<"fetch", "sleep-backoff", "fetch">>

(* ---- C20 ---- *)

SchemeLetters ==
    {"a", "b", "d", "e", "f", "h", "p", "s", "t", "x", "H", "P", "T"}

SchemeChars == SchemeLetters \cup Digits \cup {"+", "-", "."}

(* The text begins with a URL scheme: a letter, then letters, digits,     *)
(* '+', '-' or '.', then ':'.                                              *)
BeginsWithScheme(text) ==
    \E i \in DOMAIN text :
        /\ i > 1
        /\ text[i] = ":"
        /\ text[1] \in SchemeLetters
        /\ \A j \in 2..(i - 1) : text[j] \in SchemeChars

(* C20: the resolved URL of a request is the path itself when the path     *)
(* begins with a URL scheme, and the base URL followed by the path for     *)
(* every other path.                                                       *)
C20_ResolvedUrl ==
    req # None =>
        /\ url = Some(IF BeginsWithScheme(req[1].path) THEN req[1].path
                      ELSE baseUrl \o req[1].path)
        /\ \A i \in DOMAIN fetched : fetched[i].url = url[1]

(* ---- C22 ---- *)

(* The number of network calls among the first i entries of the trace *)
CallsUpTo(i) == Count(SubSeq(trace, 1, i), {"fetch"})

(* Entries i < j of the trace are consecutive network calls *)
ConsecutiveCalls(i, j) ==
    /\ i < j
    /\ trace[i] = "fetch"
    /\ trace[j] = "fetch"
    /\ \A k \in (i + 1)..(j - 1) : trace[k] # "fetch"

(* C22: between any two consecutive network calls of a request there is    *)
(* exactly one sleep, a rate-limit wait after a 429 response and a backoff *)
(* wait otherwise: no call follows the previous one directly.              *)
C22_OneSleepBetweenCalls ==
    \A i, j \in 1..Len(trace) :
        ConsecutiveCalls(i, j) =>
            LET waits == {k \in (i + 1)..(j - 1) : trace[k] \in SleepKinds}
            IN  /\ Cardinality(waits) = 1
                /\ \A k \in waits :
                        trace[k] = IF IsResponse(outcomes[CallsUpTo(i)], 429)
                                   THEN "sleep-rate-limit" ELSE "sleep-backoff"

(* ---- C23 ---- *)

(* C23: once a network call of a request was answered with a 2xx response  *)
(* the request issues no further network call.                             *)
C23_NoCallAfterSuccess ==
    \A i \in 1..Len(outcomes) :
        (outcomes[i].kind = "response" /\ IsOk(outcomes[i].status[1])) =>
            Len(fetched) = i

(* ---- C21 ---- *)

(* Network call k of request r has ended. *)
CallEnded(r, k) == k < Len(r.timers) \/ r.pc # "fetch"

(* C21: the timer of a network call is no longer armed once the call has   *)
(* ended, however it ended, and no timer is armed once the request has     *)
(* returned or raised.                                                     *)
C21_TimersDisarmed ==
    \A k \in DOMAIN timers : CallEnded(Running, k) => timers[k] # "armed"

(* ---- C24 ---- *)

(* Every network call of request r carries the URL and the headers of the *)
(* configuration the client had when r was issued.                         *)
CarriesIssueConfig(r) ==
    r.req # None =>
        LET c == r.clientAtIssue[1]
        IN  \A i \in DOMAIN r.fetched :
                LET h == r.fetched[i].headers
                IN  /\ r.fetched[i].url = baseUrl \o r.req[1].path
                    /\ HeaderNames(h) \subseteq {"Content-Type", "Authorization"}
                    /\ Entry(h, "Content-Type") = Entry(c.defaultHeaders, "Content-Type")
                    /\ Entry(h, "Authorization") =
                            IF c.authToken = None THEN None
                            ELSE Some("Bearer " \o c.authToken[1])

(* C24: all attempts of a request carry the headers and URL of the moment  *)
(* it was issued, whatever setAuthToken, setHeader and removeHeader calls  *)
(* happen while it is suspended; these calls do not change its course or   *)
(* outcome, and a request issued after them carries the new configuration. *)
C24_IssueTimeConfig ==
    /\ CarriesIssueConfig(Running)
    /\ CarriesIssueConfig(other)
    /\ (/\ outcomes = other.outcomes
        /\ (pc = "idle") = (other.pc = "idle")
        /\ (pc = "sleep") = (other.pc = "sleep"))
            => Course(Running) = Course(other)

C24_Witness ==
    /\ other.req # None
    /\ other.clientAtIssue[1].authToken = None
    /\ Len(other.fetched) = 2
    /\ other.fetched[2].headers = InitialHeaders
    /\ req # None
    /\ clientAtIssue[1].authToken = Some("t1")
    /\ clientAtIssue[1].defaultHeaders = <<>>
    /\ Len(fetched) = 2
    /\ fetched[2].headers = <<[name |-> "Authorization", value |-> "Bearer t1"]>>
    /\ authToken = None
    /\ defaultHeaders = <<[name |-> "Content-Type", value |-> "text/plain"]>>
    /\ outcomes = other.outcomes
    /\ pc = "returned"

(* ---- C25 ---- *)

(* C25: every network call is issued with the signal of the controller of  *)
(* its own attempt, whatever the per-request config carries, so a pending  *)
(* call whose timer has fired is aborted.                                  *)
C25_OwnSignalOnEveryCall ==
    /\ \A k \in DOMAIN fetched : fetched[k].signal = Controller(k)
    /\ pc = "fetch" => timers[Len(timers)] = "armed"

(* ---- C26 ---- *)

(* A timer of request r has fired after its network call had ended. *)
FiredLate(r) ==
    \E k \in DOMAIN r.timers :
        /\ r.timers[k] = "fired"
        /\ r.outcomes[k].kind # "AbortError"

(* In request r a call that listens to its own controller is aborted only  *)
(* by its own timer, a returned request has its result and no error, and a *)
(* timeout error comes from the abort of the last call.                    *)
AbortsAreOwn(r) ==
    /\ \A k \in DOMAIN r.outcomes :
            (r.outcomes[k].kind = "AbortError" /\ r.fetched[k].signal = Controller(k))
                => r.timers[k] = "fired"
    /\ r.pc = "returned" =>
            /\ r.result # None
            /\ r.raised = None
            /\ Last(r.outcomes).kind = "response"
    /\ (r.pc = "raised" /\ r.raised[1].status = Some(408)) =>
            Last(r.outcomes).kind = "AbortError"

(* C26: a timer that fires late aborts nothing but the call that armed it: *)
(* no later call of the same request, no call of the other request, and a  *)
(* request that returned stays returned with its result.                   *)
C26_LateTimerIsHarmless ==
    /\ AbortsAreOwn(Running)
    /\ AbortsAreOwn(other)

C26_Witness ==
    /\ pc = "returned"
    /\ outcomes[1].kind = "TypeError"
    /\ timers = <<"fired", "cleared">>
    /\ other.pc = "fetch"
    /\ other.timers = <<"fired", "armed">>
    /\ other.outcomes = <<Outcome("TypeError", None)>>

(* ---- C27 ---- *)

(* C27: every issued request eventually returns a result or raises an     *)
(* error, for every retries value and every sequence of outcomes of its    *)
(* network calls: every network call is one more iteration of the loop,    *)
(* whose variable never exceeds retries.                                   *)
C27_RequestTerminates ==
    /\ (pc # "idle") ~> Terminal
    /\ [](pc \in {"fetch", "sleep"} => Calls = attempt + 1 /\ attempt <= retries)

C27_Witness ==
    /\ pc = "raised"
    /\ retries = MaxRetriesArg
    /\ ~skipRetry
    /\ Calls = MaxRetriesArg + 1
    /\ Sleeps = MaxRetriesArg

(* ---- C30 ---- *)

EndsWith(text, suffix) ==
    /\ Len(text) >= Len(suffix)
    /\ SubSeq(text, Len(text) - Len(suffix) + 1, Len(text)) = suffix

(* C30: for every string and every maxLength >= 0, truncate returns the    *)
(* string unchanged when it is no longer than maxLength, and otherwise a   *)
(* string of length at most maxLength that ends with "...".                *)
C30_TruncateLength ==
    (call # None /\ call.out # None) =>
        IF Len(call.str) <= call.maxLength
        THEN call.out[1] = call.str
        ELSE /\ Len(call.out[1]) <= call.maxLength
             /\ EndsWith(call.out[1], <<".", ".", ".">>)

(* ---- C29 ---- *)

Events == call.events

Invocations == {i \in DOMAIN Events : Events[i].kind = "invoke"}

CallsMade == {i \in DOMAIN Events : Events[i].kind = "call"}

InvocationsBefore(c) == {i \in Invocations : i < c}

LastInvocationBefore(c) ==
    CHOOSE i \in InvocationsBefore(c) : \A j \in InvocationsBefore(c) : j <= i

InvokedFor(c) == \E i \in Invocations : Events[i].of = c

(* C29: for the function throttle(fn, ms) returns, the first call invokes  *)
(* fn, any two invocations of fn are at least ms apart, and a call made    *)
(* less than ms after the last invocation is dropped: fn is invoked for it *)
(* neither then nor later.                                                 *)
C29_Throttle ==
    (call # None /\ call.fn = "throttle") =>
        /\ CallsMade # {} =>
              /\ Len(Events) >= 2
              /\ Events[1].kind = "call"
              /\ Events[2] = InvokeEvent(Events[1].at, Events[1].args, 1)
        /\ \A i, j \in Invocations :
              i < j => Events[j].at - Events[i].at >= call.ms
        /\ \A c \in CallsMade :
              (/\ InvocationsBefore(c) # {}
               /\ Events[c].at - Events[LastInvocationBefore(c)].at < call.ms)
                 => ~InvokedFor(c)

C29_Witness ==
    /\ call # None
    /\ call.fn = "throttle"
    /\ call.ms > 0
    /\ Cardinality(Invocations) >= 2
    /\ \E c \in CallsMade : InvocationsBefore(c) # {} /\ ~InvokedFor(c)

(* ---- C28 ---- *)

IsDebounce == call # None /\ call.fn = "debounce"

NextCall(c) == CHOOSE d \in CallsMade : d > c /\ \A e \in CallsMade : e > c => d <= e

(* The run of calls that call c closes: c and the calls before it, back    *)
(* to the first one that comes less than ms after its predecessor no more. *)
RECURSIVE RunEndingAt(_)
RunEndingAt(c) ==
    LET before == {d \in CallsMade : d < c}
    IN  IF before = {} THEN {c}
        ELSE LET p == CHOOSE d \in before : \A e \in before : e <= d
             IN  IF Events[c].at - Events[p].at < call.ms
                 THEN RunEndingAt(p) \cup {c}
                 ELSE {c}

(* An invocation comes ms or more after the most recent call, with no call *)
(* in between, and passes on the arguments of that call.                   *)
InvocationsFollowQuiet ==
    \A i \in Invocations :
        LET c == Events[i].of
        IN  /\ c \in CallsMade
            /\ c < i
            /\ \A d \in CallsMade : ~(c < d /\ d < i)
            /\ Events[i].at - Events[c].at >= call.ms
            /\ Events[i].args = Events[c].args

(* C28: for the function debounce(fn, ms) returns, fn is invoked only once *)
(* ms have elapsed since the most recent call with no call in between, and *)
(* with the arguments of that call; and a run of calls, each less than ms  *)
(* after the previous one, produces exactly one invocation of fn, after    *)
(* the last call of the run: once a call that is ms or more after the last *)
(* call of a run has been made, the run has produced its one invocation.   *)
C28_Debounce ==
    IsDebounce =>
        /\ InvocationsFollowQuiet
        /\ \A c \in CallsMade :
              (/\ \E d \in CallsMade : d > c
               /\ Events[NextCall(c)].at - Events[c].at >= call.ms)
                 => Cardinality({i \in Invocations :
                                    Events[i].of \in RunEndingAt(c)}) = 1

(* C28 as amended: the runs are the calls made while the timer of the      *)
(* previous call is still pending.  Every invocation directly follows the  *)
(* call whose arguments it passes on and comes ms or more after it; the    *)
(* only timer pending is that of the last call, if fn has not been invoked *)
(* since; and, the calls being finitely many, the pending timer fires.     *)
C28_DebounceByTimer ==
    /\ [](IsDebounce =>
            /\ InvocationsFollowQuiet
            /\ \A i \in Invocations :
                  Events[i].of = i - 1 /\ Events[i - 1].kind = "call"
            /\ \A t \in call.pending :
                  t.id = Len(Events) /\ Events[t.id].kind = "call"
            /\ (Events # <<>> /\ Events[Len(Events)].kind = "call")
                  => call.pending # {})
    /\ (IsDebounce /\ call.pending # {}) ~> (call.pending = {})

C28_Witness ==
    /\ IsDebounce
    /\ call.ms > 0
    /\ Cardinality(Invocations) >= 2
    /\ \E c \in CallsMade : c + 1 \in CallsMade
    /\ \E i \in Invocations : Events[i].at - Events[Events[i].of].at > call.ms

====
